---- MODULE Spec2Model ----
(***************************************************************************)
(* Model of the show query controller (src/src/controllers/                *)
(* ShowController.js) and of the import reconciler exercised by            *)
(* src/test/CLI.spec.js.                                                   *)
(*                                                                         *)
(* JavaScript strings are sequences of one-character strings, so that      *)
(* split, replace, toLowerCase, match and parseInt are computed character  *)
(* by character.  A request parameter that is absent (undefined) and one   *)
(* that is the empty string are both the empty sequence: every use of a    *)
(* parameter in the controller is guarded by its truthiness, which is      *)
(* false for both.  JavaScript numbers are records [nan, val] so that NaN  *)
(* is a value of its own.                                                  *)
(***************************************************************************)
EXTENDS Integers, Sequences, FiniteSets, TLC

\* ---------------------------------------------------------------- bounds
MaxShows == 3
MaxPageSize == 2
MaxPage == 3
MaxKeywordLen == 3
MaxTitleLen == 3

\* ------------------------------------------------------------ characters
Uppers == <<"A","B","C","D","E","F","G","H","I","J","K","L","M",
            "N","O","P","Q","R","S","T","U","V","W","X","Y","Z">>
Lowers == <<"a","b","c","d","e","f","g","h","i","j","k","l","m",
            "n","o","p","q","r","s","t","u","v","w","x","y","z">>
Digits == <<"0","1","2","3","4","5","6","7","8","9">>

Range(s) == {s[i] : i \in DOMAIN s}

\* The characters of the model, in increasing code-unit order.
Ascii == <<"\t", " ", "&", "+", "-", "/">> \o Digits \o Uppers \o <<"\\", "_">> \o Lowers

CharCode(c) == CHOOSE i \in DOMAIN Ascii : Ascii[i] = c

IsUpper(c) == c \in Range(Uppers)
IsDigit(c) == c \in Range(Digits)
IsAlnum(c) == c \in Range(Uppers) \cup Range(Lowers) \cup Range(Digits)
\* \w of a regular expression
IsWordChar(c) == IsAlnum(c) \/ c = "_"
\* \s of a regular expression
IsSpace(c) == c \in {" ", "\t"}

LowerChar(c) == IF IsUpper(c) THEN Lowers[CHOOSE i \in DOMAIN Uppers : Uppers[i] = c] ELSE c
UpperChar(c) == IF c \in Range(Lowers) THEN Uppers[CHOOSE i \in DOMAIN Lowers : Lowers[i] = c] ELSE c

\* String.prototype.toLowerCase
toLowerCase(s) == [i \in DOMAIN s |-> LowerChar(s[i])]

\* ------------------------------------------------------- regular expressions
\* A literal pattern under the i flag is a sequence of character classes.
Lit(s) == [i \in DOMAIN s |-> {LowerChar(s[i]), UpperChar(s[i])}]
DashOrSpace == <<{"-", " ", "\t"}>>

MatchAt(s, i, pat) ==
  /\ i + Len(pat) - 1 <= Len(s)
  /\ \A k \in DOMAIN pat : s[i + k - 1] \in pat[k]

\* s.match(/pat/i) is non-null: the pattern occurs somewhere in s.
match(s, pat) == \E i \in 1..(Len(s) + 1) : MatchAt(s, i, pat)

ReAll == Lit(<<"a","l","l">>)
ReName == Lit(<<"n","a","m","e">>)
ReRating == Lit(<<"r","a","t","i","n","g">>)
ReTrending == Lit(<<"t","r","e","n","d","i","n","g">>)
ReUpdated == Lit(<<"u","p","d","a","t","e","d">>)
ReYear == Lit(<<"y","e","a","r">>)
ReScienceFiction == Lit(<<"s","c","i","e","n","c","e">>) \o DashOrSpace \o Lit(<<"f","i","c","t","i","o","n">>)
ReSciFi == Lit(<<"s","c","i">>) \o DashOrSpace \o Lit(<<"f","i">>)

ScienceFiction == <<"s","c","i","e","n","c","e","-","f","i","c","t","i","o","n">>

\* ------------------------------------------------------------------ numbers
Num(n) == [nan |-> FALSE, val |-> n]
NaN == [nan |-> TRUE, val |-> 0]

RECURSIVE DigitsValue(_)
DigitsValue(s) ==
  IF s = << >> THEN 0
  ELSE 10 * DigitsValue(SubSeq(s, 1, Len(s) - 1)) + (CharCode(s[Len(s)]) - CharCode("0"))

RECURSIVE TrimLeft(_)
TrimLeft(s) == IF s # << >> /\ IsSpace(s[1]) THEN TrimLeft(Tail(s)) ELSE s

RECURSIVE DigitPrefix(_)
DigitPrefix(s) ==
  IF s # << >> /\ IsDigit(s[1]) THEN <<s[1]>> \o DigitPrefix(Tail(s)) ELSE << >>

\* parseInt(s, 10): leading white space, an optional sign, then the longest
\* run of digits; NaN when there is no digit.
parseInt(s) ==
  LET t == TrimLeft(s)
      neg == t # << >> /\ t[1] = "-"
      u == IF t # << >> /\ t[1] \in {"-", "+"} THEN Tail(t) ELSE t
      d == DigitPrefix(u)
  IN IF d = << >> THEN NaN
     ELSE Num(IF neg THEN 0 - DigitsValue(d) ELSE DigitsValue(d))

\* ToNumber of a string, as applied by the binary minus: the decimal strings
\* of the model convert to their value, every other string to NaN.
ToNumber(s) ==
  IF s # << >> /\ \A i \in DOMAIN s : IsDigit(s[i]) THEN Num(DigitsValue(s)) ELSE NaN

Minus(a, n) == IF a.nan THEN NaN ELSE Num(a.val - n)
Times(a, n) == IF a.nan THEN NaN ELSE Num(a.val * n)

\* Number to decimal string, as a template literal formats it.
RECURSIVE Decimal(_)
Decimal(n) ==
  IF n < 10 THEN <<Digits[n + 1]>> ELSE Decimal(n \div 10) \o <<Digits[(n % 10) + 1]>>

MathCeilDiv_Floor(count, size) == count \div size

\* Math.ceil(count / pageSize) for a non-negative count and a positive size.
MathCeilDiv(count, size) == (count + size - 1) \div size

\* ------------------------------------------------------------ keyword filter
\* String.prototype.split(' '): one piece per single space character, empty
\* pieces kept.
RECURSIVE split(_)
split(s) ==
  IF \A i \in DOMAIN s : s[i] # " " THEN <<s>>
  ELSE LET i == CHOOSE j \in DOMAIN s : s[j] = " " /\ \A k \in 1..(j - 1) : s[k] # " "
       IN <<SubSeq(s, 1, i - 1)>> \o split(SubSeq(s, i + 1, Len(s)))

\* w.replace(/[^a-zA-Z0-9]/g, '')
sanitize(w) == SelectSeq(w, IsAlnum)

\* RegExp.escape: a backslash in front of every character that is special in
\* a pattern.
RegexSpecials == {"\\", "+", "-", "/"}
RECURSIVE RegExpEscape(_)
RegExpEscape(s) ==
  IF s = << >> THEN << >>
  ELSE (IF s[1] \in RegexSpecials THEN <<"\\", s[1]>> ELSE <<s[1]>>) \o RegExpEscape(Tail(s))

\* The literal text a pattern fragment stands for: an escaped character is
\* the character itself.
RECURSIVE PatternText(_)
PatternText(p) ==
  IF p = << >> THEN << >>
  ELSE IF p[1] = "\\" /\ Len(p) >= 2 THEN <<p[2]>> \o PatternText(SubSeq(p, 3, Len(p)))
  ELSE <<p[1]>> \o PatternText(Tail(p))

\* The pattern `^(?=.*\bw1\b)(?=.*\bw2\b)....*` is kept as the sequence of
\* the fragments between the \b's, one per lookahead.
KeywordRegex(keywords) ==
  LET words == split(keywords)
  IN [k \in DOMAIN words |-> RegExpEscape(toLowerCase(sanitize(words[k])))]

TitleCondition(keywords) == [regex |-> KeywordRegex(keywords), options |-> {"g", "i"}]

\* \b at the position between s[i] and s[i+1], 0 <= i <= Len(s).
WordBoundary(s, i) ==
  LET before == i >= 1 /\ IsWordChar(s[i])
      after == i + 1 <= Len(s) /\ IsWordChar(s[i + 1])
  IN before # after

SameChar(a, b, options) == IF "i" \in options THEN LowerChar(a) = LowerChar(b) ELSE a = b

\* (?=.*\bfrag\b) at the start of s.
Lookahead(s, frag, options) ==
  LET t == PatternText(frag)
  IN \E i \in 0..Len(s) :
       /\ WordBoundary(s, i)
       /\ i + Len(t) <= Len(s)
       /\ \A k \in DOMAIN t : SameChar(s[i + k], t[k], options)
       /\ WordBoundary(s, i + Len(t))

RegexAccepts(s, cond) ==
  \A k \in DOMAIN cond.regex : Lookahead(s, cond.regex[k], cond.options)

\* ------------------------------------------------------------------- shows
Drama == <<"d","r","a","m","a">>
Comedy == <<"c","o","m","e","d","y">>

Rating(v, p, w) == [votes |-> v, percentage |-> p, watching |-> w]

Doc(id, title, year, genres, rating, seasons, latest) ==
  [_id |-> id, imdb_id |-> id, tvdb_id |-> id, title |-> title, year |-> year,
   slug |-> toLowerCase(title), genres |-> genres, images |-> id, rating |-> rating,
   num_seasons |-> seasons, latest_episode |-> latest]

\* The documents a store of the model is drawn from.
ShowPool ==
  { Doc(1, <<"a"," ","b">>, 2001, {ScienceFiction},        Rating(2, 1, 1), 2, 1),
    Doc(2, <<"B">>,         2002, {Drama},                 Rating(1, 2, 1), 1, 3),
    Doc(3, <<"a"," ","b">>, 2001, {Drama, ScienceFiction}, Rating(2, 1, 2), 1, 2),
    Doc(4, <<"a","b">>,     2003, {Drama},                 Rating(3, 3, 3), 0, 4),
    Doc(5, <<"A">>,         2000, {Comedy},                Rating(1, 3, 0), 3, 6),
    Doc(6, <<"b","-","A">>, 2002, {ScienceFiction},        Rating(0, 0, 0), 0, 5) }

\* ------------------------------------------------------------------- store
StandingQuery_Gte == "num_seasons" :> [gt |-> 0 - 1]

\* ShowController.query
StandingQuery == "num_seasons" :> [gt |-> 0]

\* ShowController._projections
StandingProjections ==
  [f \in {"_id", "imdb_id", "tvdb_id", "title", "year", "slug", "genres",
          "images", "rating", "num_seasons"} |-> 1]

Condition(doc, f, cond) ==
  CASE f = "num_seasons" -> doc.num_seasons > cond.gt
    [] f = "title" -> RegexAccepts(doc.title, cond)
    [] f = "genres" -> cond.eq \in doc.genres

Matches(doc, q) == \A f \in DOMAIN q : Condition(doc, f, q[f])

Project(doc, proj) == [f \in {g \in DOMAIN proj : proj[g] = 1} \cap DOMAIN doc |-> doc[f]]

RECURSIVE StringLess(_, _)
StringLess(a, b) ==
  IF b = << >> THEN FALSE
  ELSE IF a = << >> THEN TRUE
  ELSE IF a[1] # b[1] THEN CharCode(a[1]) < CharCode(b[1])
  ELSE StringLess(Tail(a), Tail(b))

Field(doc, key) ==
  CASE key = "title" -> doc.title
    [] key = "year" -> doc.year
    [] key = "latest_episode" -> doc.latest_episode
    [] key = "rating.votes" -> doc.rating.votes
    [] key = "rating.percentage" -> doc.rating.percentage
    [] key = "rating.watching" -> doc.rating.watching

Less(key, a, b) == IF key = "title" THEN StringLess(a, b) ELSE a < b

\* a may stand before b under the sort specification (keys in order).
RECURSIVE InOrder(_, _, _)
InOrder(a, b, sort) ==
  IF sort = << >> THEN TRUE
  ELSE LET k == sort[1].key
           x == Field(a, k)
           y == Field(b, k)
       IN IF x = y THEN InOrder(a, b, Tail(sort))
          ELSE IF sort[1].dir.val = 1 THEN Less(k, x, y) ELSE Less(k, y, x)

IndexPermutations(s) ==
  {p \in [DOMAIN s -> DOMAIN s] : \A i, j \in DOMAIN s : i # j => p[i] # p[j]}

Orderings(s) == {[i \in DOMAIN s |-> s[p[i]]] : p \in IndexPermutations(s)}

IsSorted(s, sort) == \A i \in 1..(Len(s) - 1) : InOrder(s[i], s[i + 1], sort)

Drop(s, n) == SubSeq(s, n + 1, Len(s))
Take(s, n) == SubSeq(s, 1, IF n < Len(s) THEN n ELSE Len(s))

\* The results one pipeline stage can produce from the sequence s.
Stage(st, s) ==
  CASE st.op = "$match" -> {SelectSeq(s, LAMBDA d : Matches(d, st.arg))}
    [] st.op = "$project" -> {[i \in DOMAIN s |-> Project(s[i], st.arg)]}
    [] st.op = "$sort" -> {t \in Orderings(s) : IsSorted(t, st.arg)}
    [] st.op = "$skip" -> {Drop(s, st.arg.val)}
    [] st.op = "$limit" -> {Take(s, st.arg)}
    [] st.op = "$sample" -> {Take(t, st.arg) : t \in Orderings(s)}

\* The store refuses a pipeline with a sort direction other than 1 or -1 or
\* with a skip that is not a non-negative number.
StageValid(st) ==
  CASE st.op = "$sort" -> \A i \in DOMAIN st.arg : ~st.arg[i].dir.nan /\ st.arg[i].dir.val \in {1, 0 - 1}
    [] st.op = "$skip" -> ~st.arg.nan /\ st.arg.val >= 0
    [] OTHER -> TRUE

PipelineValid(stages) == \A i \in DOMAIN stages : StageValid(stages[i])

RECURSIVE RunStages(_, _)
RunStages(stages, seqs) ==
  IF stages = << >> THEN seqs
  ELSE RunStages(Tail(stages), UNION {Stage(stages[1], s) : s \in seqs})

\* Show.aggregate(stages).exec(): the possible results over the collection,
\* whose natural order is not fixed.
NaturalOrders(coll) == {s \in [1..Cardinality(coll) -> coll] : \A i, j \in DOMAIN s : i # j => s[i] # s[j]}

aggregate(stages, coll) == RunStages(stages, NaturalOrders(coll))

\* Show.count(q).exec()
count(q, coll) == Cardinality({d \in coll : Matches(d, q)})

\* Show.findOne({_id: id}, {latest_episode: 0}).exec(): the document without
\* the excluded field, or null (here the empty sequence of results).
findOne(id, coll) ==
  LET hit == {d \in coll : d._id = id}
  IN IF hit = {} THEN << >>
     ELSE LET d == CHOOSE x \in hit : TRUE
          IN <<[f \in DOMAIN d \ {"latest_episode"} |-> d[f]]>>

\* ------------------------------------------------------------------- state
VARIABLES
  store,         \* the Show collection
  pageSize,      \* config/constants pageSize
  query,         \* the static ShowController.query
  _projections,  \* the static ShowController._projections
  last           \* the request being answered and what its caller observed

vars == <<store, pageSize, query, _projections, last>>

Idle == [op |-> "none"]

Stores == {s \in SUBSET ShowPool : Cardinality(s) <= MaxShows}

\* ----------------------------------------------------------- request inputs
All == <<"a","l","l">>
PageInputs == {Decimal(i) : i \in 0..MaxPage} \cup {All, <<"A","L","L">>}
KeywordInputs == {<< >>, <<"a">>, <<"b"," ","A">>}
SortInputs == {<< >>, <<"n","a","m","e">>, <<"r","a","t","i","n","g">>,
               <<"t","r","e","n","d","i","n","g">>, <<"u","p","d","a","t","e","d">>,
               <<"y","e","a","r">>}
OrderInputs == {<< >>, <<"1">>, <<"-","1">>, <<"2">>, <<"u","p">>}
GenreInputs == {<< >>, <<"A","l","l">>, <<"S","c","i"," ","F","i">>, ScienceFiction,
                <<"D","r","a","m","a">>, <<"b","a","l","l">>}
IdInputs == 1..(Cardinality(ShowPool) + 1)

Truthy(s) == s # << >>

\* ------------------------------------------------------------------ getPage
\* lines 81-87 and 104-121: the $sort argument, keys in insertion order.
SortKeys(keys, order) == [i \in DOMAIN keys |-> [key |-> keys[i], dir |-> order]]

DataOrder(order) == IF Truthy(order) THEN parseInt(order) ELSE Num(0 - 1)

BuildSort(sortField, order) ==
  LET o == DataOrder(order)
      s0 == SortKeys(<<"rating.votes", "rating.percentage", "rating.watching">>, o)
      s1 == IF match(sortField, ReName) THEN SortKeys(<<"title">>, o) ELSE s0
      s2 == IF match(sortField, ReRating) THEN SortKeys(<<"rating.percentage", "rating.votes">>, o) ELSE s1
      s3 == IF match(sortField, ReTrending) THEN SortKeys(<<"rating.watching">>, o) ELSE s2
      s4 == IF match(sortField, ReUpdated) THEN SortKeys(<<"latest_episode">>, o) ELSE s3
      s5 == IF match(sortField, ReYear) THEN SortKeys(<<"year">>, o) ELSE s4
  IN IF Truthy(sortField) THEN s5 ELSE s0

\* lines 123-130: the genre constraint, or none.
GenreFilters(genre) == Truthy(genre) /\ ~match(genre, ReAll)

GenreTag(genre) ==
  toLowerCase(IF match(genre, ReScienceFiction) \/ match(genre, ReSciFi)
              THEN ScienceFiction ELSE genre)

\* lines 78-130: the $match argument of a numeric page, built on a copy of
\* the static query.
BuildQuery(shared, keywords, genre) ==
  LET q0 == shared
      q1 == IF Truthy(keywords) THEN ("title" :> TitleCondition(keywords)) @@ q0 ELSE q0
      q2 == IF GenreFilters(genre) THEN ("genres" :> [eq |-> GenreTag(genre)]) @@ q1 ELSE q1
  IN q2

QueryAfterGetPage_Aliased(shared, keywords, genre) == BuildQuery(shared, keywords, genre)

\* line 78: Object.assign({}, ShowController.query) makes the request's own
\* object, so the assignments of lines 98 and 129 leave the static as it was.
QueryAfterGetPage(shared, keywords, genre) == shared

PageOffset_NoMinus(page, size) == Times(ToNumber(page), size)

\* lines 61-62
PageOffset(page, size) == Times(Minus(ToNumber(page), 1), size)

IsAllPage(page) == match(page, ReAll)

AllPipeline_Ascending(shared, proj) ==
  << [op |-> "$match", arg |-> shared],
     [op |-> "$project", arg |-> proj],
     [op |-> "$sort", arg |-> SortKeys(<<"title">>, Num(1))] >>

\* lines 65-73
AllPipeline(shared, proj) ==
  << [op |-> "$match", arg |-> shared],
     [op |-> "$project", arg |-> proj],
     [op |-> "$sort", arg |-> SortKeys(<<"title">>, Num(0 - 1))] >>

PagePipeline(sort, q, proj, offset, size) ==
  << [op |-> "$sort", arg |-> sort],
     [op |-> "$match", arg |-> q],
     [op |-> "$project", arg |-> proj],
     [op |-> "$skip", arg |-> offset],
     [op |-> "$limit", arg |-> size] >>

\* What the caller of a handler observes: whether res.json was called with a
\* result and with what, whether next(err) was called, whether the error was
\* sent as a response, and how the returned promise settled.
Answered(req, body) ==
  req @@ [failed |-> FALSE, sent |-> TRUE, body |-> body, nextCalled |-> FALSE,
          errorSent |-> FALSE, promise |-> "fulfilled"]

\* .catch(err => next(err))
HandedToNext(req) ==
  req @@ [failed |-> TRUE, sent |-> FALSE, body |-> << >>, nextCalled |-> TRUE,
          errorSent |-> FALSE, promise |-> "fulfilled"]

\* line 144: .catch(err => res.jfson(err)); res has no method jfson, so the
\* catch callback throws a TypeError and the promise it returns rejects.
PageCatch(req) ==
  req @@ [failed |-> TRUE, sent |-> FALSE, body |-> << >>, nextCalled |-> FALSE,
          errorSent |-> FALSE, promise |-> "rejected"]

Request(op, page, keywords, sortField, order, genre, id) ==
  [op |-> op, page |-> page, keywords |-> keywords, sortField |-> sortField,
   order |-> order, genre |-> genre, id |-> id]

GetPageOver(pages, keywordSet, sortFields, orders, genres) ==
  /\ last = Idle
  /\ \E page \in pages, keywords \in keywordSet, sortField \in sortFields,
        order \in orders, genre \in genres, storeFails \in BOOLEAN :
       LET offset == PageOffset(page, pageSize)
           sort == BuildSort(sortField, order)
           q == BuildQuery(query, keywords, genre)
           req == Request("getPage", page, keywords, sortField, order, genre, 0)
       IN IF IsAllPage(page)
          THEN LET stages == AllPipeline(query, _projections)
                   r == req @@ [all |-> TRUE, sort |-> stages[3].arg, match |-> query, offset |-> offset]
               IN /\ query' = query
                  /\ IF storeFails \/ ~PipelineValid(stages)
                     THEN last' = HandedToNext(r)
                     ELSE \E docs \in aggregate(stages, store) : last' = Answered(r, docs)
          ELSE LET stages == PagePipeline(sort, q, _projections, offset, pageSize)
                   r == req @@ [all |-> FALSE, sort |-> sort, match |-> q, offset |-> offset]
               IN /\ query' = QueryAfterGetPage(query, keywords, genre)
                  /\ IF storeFails \/ ~PipelineValid(stages)
                     THEN last' = PageCatch(r)
                     ELSE \E docs \in aggregate(stages, store) : last' = Answered(r, docs)
  /\ UNCHANGED <<store, pageSize, _projections>>

getPage == GetPageOver(PageInputs, KeywordInputs, SortInputs, OrderInputs, GenreInputs)

\* ----------------------------------------------------------------- getShows
\* `shows/${i}`
ShowsPath(i) == <<"s","h","o","w","s","/">> \o Decimal(i)

PageList(n, size) ==
  LET pages == MathCeilDiv(n, size)
  IN [i \in 1..pages |-> ShowsPath(i)]

NoParams(op) == Request(op, << >>, << >>, << >>, << >>, << >>, 0)

getShows ==
  /\ last = Idle
  /\ \E storeFails \in BOOLEAN :
       IF storeFails
       THEN last' = HandedToNext(NoParams("getShows"))
       ELSE last' = Answered(NoParams("getShows"), PageList(count(query, store), pageSize))
  /\ UNCHANGED <<store, pageSize, query, _projections>>

\* ------------------------------------------------------------------ getShow
getShow ==
  /\ last = Idle
  /\ \E id \in IdInputs, storeFails \in BOOLEAN :
       LET req == Request("getShow", << >>, << >>, << >>, << >>, << >>, id)
       IN IF storeFails
          THEN last' = HandedToNext(req)
          ELSE last' = Answered(req, findOne(id, store))
  /\ UNCHANGED <<store, pageSize, query, _projections>>

\* ------------------------------------------------------------ getRandomShow
RandomPipeline == << [op |-> "$sample", arg |-> 1], [op |-> "$limit", arg |-> 1] >>

\* res.json(docs[0]): the sampled document, or undefined (here no result)
\* when the collection is empty.
getRandomShow ==
  /\ last = Idle
  /\ \E storeFails \in BOOLEAN :
       IF storeFails
       THEN last' = HandedToNext(NoParams("getRandomShow"))
       ELSE \E docs \in aggregate(RandomPipeline, store) :
              last' = Answered(NoParams("getRandomShow"), Take(docs, 1))
  /\ UNCHANGED <<store, pageSize, query, _projections>>

\* The response has gone out; the next request can be observed.
Respond ==
  /\ last # Idle
  /\ last' = Idle
  /\ UNCHANGED <<store, pageSize, query, _projections>>

Init ==
  /\ store \in Stores
  /\ pageSize \in 1..MaxPageSize
  /\ query = StandingQuery
  /\ _projections = StandingProjections
  /\ last = Idle

Next == getShows \/ getPage \/ getShow \/ getRandomShow \/ Respond

Spec == Init /\ [][Next]_vars

\* ------------------------------------------------- keyword search on a title
\* Every keyword input and every title up to a length, over letters of both
\* cases, the space and two punctuation characters, one of them a word
\* character.
StringChars == {"a", "A", "b", " ", "-", "_"}
Strings(n) == UNION {[1..k -> StringChars] : k \in 0..n}

TitledShow(title) == Doc(1, title, 2000, {Drama}, Rating(1, 1, 1), 1, 1)

getPageKeywords ==
  GetPageOver({<<"1">>}, Strings(MaxKeywordLen) \ {<< >>}, {<< >>}, {<< >>}, {<< >>})

InitKeywords ==
  /\ store \in {{TitledShow(t)} : t \in Strings(MaxTitleLen)}
  /\ pageSize = 1
  /\ query = StandingQuery
  /\ _projections = StandingProjections
  /\ last = Idle

NextKeywords == getPageKeywords

SpecKeywords == InitKeywords /\ [][NextKeywords]_vars

\* ------------------------------------------------------- import reconciler
\* importAll(path): the file holds one record whose key collides with an
\* entry of the store; the user is asked to confirm the replacement.
ImportPaths == {"shows.json", "/path/to/faulty/file.json"}
Readable(path) == path = "shows.json"
PromptOutcomes == {"confirm", "decline", "error"}

\* The record a file holds for an entry: the same key, other content.
Exported(d) == [d EXCEPT !.year = IF d.year = 2010 THEN d.year ELSE 2010]

Colliding(coll) == {Exported(d) : d \in coll} \cup coll

ImportedStore_Always(coll, rec, prompt) == {d \in coll : d._id # rec._id} \cup {rec}

ImportedStore(coll, rec, prompt) ==
  IF prompt = "confirm" THEN {d \in coll : d._id # rec._id} \cup {rec} ELSE coll

ImportResult(prompt) == IF prompt = "confirm" THEN "string" ELSE "undefined"

importAll ==
  /\ last = Idle
  /\ \E path \in ImportPaths :
       IF ~Readable(path)
       THEN /\ last' = [op |-> "import", path |-> path, readable |-> FALSE, prompt |-> "none",
                        before |-> store, record |-> << >>, result |-> "undefined", threw |-> FALSE,
                        promise |-> "none"]
            /\ store' = store
       ELSE \E rec \in Colliding(store), prompt \in PromptOutcomes :
              /\ last' = [op |-> "import", path |-> path, readable |-> TRUE, prompt |-> prompt,
                          before |-> store, record |-> rec, result |-> ImportResult(prompt),
                          threw |-> FALSE, promise |-> "fulfilled"]
              /\ store' = ImportedStore(store, rec, prompt)
  /\ UNCHANGED <<pageSize, query, _projections>>

NextImport == importAll \/ Respond

SpecImport == Init /\ [][NextImport]_vars

\* ============================================================== properties
Positive(coll) == {d \in coll : d.num_seasons > 0}

\* The least n with n * p >= c.
CeilOf(c, p) == CHOOSE n \in 0..c : n * p >= c /\ \A m \in 0..(n - 1) : m * p < c

Strip(d) == [f \in DOMAIN d \ {"latest_episode"} |-> d[f]]

CatalogFields == {"_id", "imdb_id", "tvdb_id", "title", "year", "slug", "genres",
                  "images", "rating", "num_seasons"}

PageIdOf(path) == DigitsValue(Drop(path, 6))

NumericAnswer == last.op = "getPage" /\ ~last.all /\ last.sent
AllAnswer == last.op = "getPage" /\ last.all /\ last.sent

\* C1: getShows answers with exactly ceil(c / pageSize) page identifiers,
\* numbered 1, 2, ... in increasing order, c being the number of stored
\* shows with num_seasons > 0; none when c = 0.
C1_ListPagesCount ==
  (last.op = "getShows" /\ last.sent) =>
    LET c == Cardinality(Positive(store))
        n == CeilOf(c, pageSize)
    IN /\ Len(last.body) = n
       /\ \A i \in 1..n : last.body[i] = ShowsPath(i) /\ PageIdOf(last.body[i]) = i
       /\ (c = 0 => last.body = << >>)

C1_Witness ==
  /\ last.op = "getShows" /\ last.sent
  /\ last.body # << >>
  /\ Cardinality(Positive(store)) % pageSize # 0
  /\ Positive(store) # store

\* C2: a numeric getPage(i) answers with the entries at positions
\* (i-1)*pageSize+1 .. i*pageSize of the store filtered (num_seasons > 0,
\* keywords, genre) and then sorted, at most pageSize of them, each without
\* latest_episode and with catalog-facing fields only.
ClaimFilter(d, keywords, genre) ==
  /\ d.num_seasons > 0
  /\ Truthy(keywords) => RegexAccepts(d.title, TitleCondition(keywords))
  /\ GenreFilters(genre) => GenreTag(genre) \in d.genres

SortedLists(coll, sort) == {t \in NaturalOrders(coll) : IsSorted(t, sort)}

SliceOf(L, i, p) ==
  LET first == (i - 1) * p + 1
      lastIx == IF i * p < Len(L) THEN i * p ELSE Len(L)
  IN [k \in 1..(IF lastIx >= first THEN lastIx - first + 1 ELSE 0) |-> L[first + k - 1]]

C2_PageSlice ==
  NumericAnswer =>
    LET i == DigitsValue(last.page)
        F == {d \in store : ClaimFilter(d, last.keywords, last.genre)}
    IN /\ i >= 1
       /\ Len(last.body) <= pageSize
       /\ \E L \in SortedLists(F, last.sort) :
            last.body = [k \in DOMAIN SliceOf(L, i, pageSize) |-> Strip(SliceOf(L, i, pageSize)[k])]
       /\ \A k \in DOMAIN last.body :
            DOMAIN last.body[k] \subseteq CatalogFields /\ "latest_episode" \notin DOMAIN last.body[k]

C2_Witness ==
  /\ NumericAnswer
  /\ last.page = <<"2">>
  /\ last.body # << >>
  /\ GenreFilters(last.genre)
  /\ Truthy(last.sortField)

\* C3: an entry with num_seasons <= 0 is never counted by getShows and never
\* part of a getPage answer, in numeric and in "all" mode; getRandomShow
\* draws from the whole store.
C3_StandingInvariant ==
  /\ (last.op = "getShows" /\ last.sent) =>
       Len(last.body) = CeilOf(Cardinality(store \ {d \in store : d.num_seasons <= 0}), pageSize)
  /\ (last.op = "getPage" /\ last.sent) =>
       \A k \in DOMAIN last.body : ~(last.body[k].num_seasons <= 0)
  /\ (last.op = "getRandomShow" /\ last.sent) =>
       /\ (last.body = << >>) <=> (store = {})
       /\ \A k \in DOMAIN last.body : last.body[k] \in store

\* getRandomShow has answered with an entry that has no season.
C3_Witness ==
  /\ last.op = "getRandomShow" /\ last.sent
  /\ last.body # << >>
  /\ last.body[1].num_seasons <= 0
  /\ Positive(store) # {}

\* C4: with the "all" page, getPage answers with every entry that has
\* num_seasons > 0, by title descending, neither skipped nor limited,
\* whatever keywords, genre, sort and order the request carries; a positive
\* page index is never taken for "all".
C4_AllMode ==
  /\ AllAnswer =>
       \E L \in NaturalOrders(Positive(store)) :
         /\ last.body = [k \in DOMAIN L |-> Strip(L[k])]
         /\ \A k \in 1..(Len(L) - 1) : ~StringLess(L[k].title, L[k + 1].title)
  /\ (last.op = "getPage" /\ last.page # << >> /\ \A k \in DOMAIN last.page : IsDigit(last.page[k]))
       => ~last.all

C4_Witness ==
  /\ AllAnswer
  /\ Truthy(last.keywords) /\ GenreFilters(last.genre) /\ Truthy(last.order)
  /\ Len(last.body) > pageSize
  /\ \E k \in DOMAIN last.body : ~ClaimFilter(last.body[k], last.keywords, last.genre)
  /\ \E k \in 1..(Len(last.body) - 1) : last.body[k].title # last.body[k + 1].title

\* C5: the title filter accepts a title exactly when every token of the
\* keyword input (separated by white space, reduced to its alphanumeric
\* characters, lower-cased) is one of the words of the title, letter case
\* and order aside.  A token with no alphanumeric character asks nothing.
WordsOf(s) ==
  {SubSeq(s, i, j) : i \in DOMAIN s, j \in DOMAIN s} \cap
  {w \in UNION {[1..k -> Range(s)] : k \in 1..Len(s)} :
     \E i \in DOMAIN s :
       /\ i + Len(w) - 1 <= Len(s)
       /\ w = SubSeq(s, i, i + Len(w) - 1)
       /\ \A k \in DOMAIN w : IsWordChar(w[k])
       /\ (i = 1 \/ ~IsWordChar(s[i - 1]))
       /\ (i + Len(w) - 1 = Len(s) \/ ~IsWordChar(s[i + Len(w)]))}

TokensOf(s) ==
  {w \in {SubSeq(s, i, j) : i \in DOMAIN s, j \in DOMAIN s} :
     /\ w # << >>
     /\ \A k \in DOMAIN w : ~IsSpace(w[k])
     /\ \E i \in DOMAIN s :
          /\ i + Len(w) - 1 <= Len(s)
          /\ w = SubSeq(s, i, i + Len(w) - 1)
          /\ (i = 1 \/ IsSpace(s[i - 1]))
          /\ (i + Len(w) - 1 = Len(s) \/ IsSpace(s[i + Len(w)]))}

ClaimAccepts(title, keywords) ==
  \A t \in {toLowerCase(sanitize(w)) : w \in TokensOf(keywords)} \ {<< >>} :
    t \in {toLowerCase(w) : w \in WordsOf(title)}

C5_KeywordsAsWords ==
  NumericAnswer =>
    \A d \in store : (Strip(d) \in Range(last.body)) <=> ClaimAccepts(d.title, last.keywords)

\* C6: on a numeric getPage, genre "all" in any letter case adds no genre
\* constraint, a spelling of "science fiction" or "sci-fi" constrains to the
\* tag "science-fiction", and any other genre constrains to the lower-cased
\* genre itself.
IsSciFiSpelling(g) ==
  \/ Len(g) = Len(ReScienceFiction) /\ MatchAt(g, 1, ReScienceFiction)
  \/ Len(g) = Len(ReSciFi) /\ MatchAt(g, 1, ReSciFi)

C6_GenreConstraint ==
  (last.op = "getPage" /\ ~last.all /\ Truthy(last.genre)) =>
    IF toLowerCase(last.genre) = All THEN "genres" \notin DOMAIN last.match
    ELSE /\ "genres" \in DOMAIN last.match
         /\ last.match["genres"] =
              [eq |-> IF IsSciFiSpelling(last.genre) THEN ScienceFiction ELSE toLowerCase(last.genre)]

\* C7: on a numeric getPage the sort keys are those of the sort field (the
\* three rating keys when there is none), all keys carry one direction, the
\* direction is 1 or -1, and it is -1 when the request gives no order.
ExpectedSortKeys(sortField) ==
  CASE sortField = << >> -> <<"rating.votes", "rating.percentage", "rating.watching">>
    [] sortField = <<"n","a","m","e">> -> <<"title">>
    [] sortField = <<"r","a","t","i","n","g">> -> <<"rating.percentage", "rating.votes">>
    [] sortField = <<"t","r","e","n","d","i","n","g">> -> <<"rating.watching">>
    [] sortField = <<"u","p","d","a","t","e","d">> -> <<"latest_episode">>
    [] sortField = <<"y","e","a","r">> -> <<"year">>

C7_SortSpecification ==
  (last.op = "getPage" /\ ~last.all) =>
    /\ [k \in DOMAIN last.sort |-> last.sort[k].key] = ExpectedSortKeys(last.sortField)
    /\ \A k \in DOMAIN last.sort :
         /\ last.sort[k].dir = last.sort[1].dir
         /\ ~last.sort[k].dir.nan
         /\ last.sort[k].dir.val \in {1, 0 - 1}
         /\ (last.order = << >> => last.sort[k].dir.val = 0 - 1)

\* C8: an import changes the store only on confirmation.  Confirmed: the
\* stored entry is replaced by the imported record and the call resolves to
\* a string.  Declined: the store is as before and the call resolves to
\* nothing.  Prompt failed: the store is as before and the call resolves.
\* Unreadable path: nothing is returned, nothing is thrown, the store is as
\* before.
C8_ImportOnConfirmation ==
  (last.op = "import") =>
    /\ ~last.threw /\ last.promise # "rejected"
    /\ ~last.readable => (last.result = "undefined" /\ store = last.before)
    /\ (last.readable /\ last.prompt = "confirm") =>
         /\ last.result = "string"
         /\ last.record \in store
         /\ \A d \in store : d._id = last.record._id => d = last.record
         /\ {d \in store : d._id # last.record._id} = {d \in last.before : d._id # last.record._id}
    /\ (last.readable /\ last.prompt = "decline") => (last.result = "undefined" /\ store = last.before)
    /\ (last.readable /\ last.prompt = "error") => (last.promise = "fulfilled" /\ store = last.before)

\* A declined import of a record that differs from the stored entry.
C8_Witness ==
  /\ last.op = "import" /\ last.readable /\ last.prompt = "decline"
  /\ last.record \notin store
  /\ \E d \in store : d._id = last.record._id

\* C9: when the store call of a read operation fails, the failure reaches
\* the caller exactly once (next(err) or an error response), no result is
\* sent and the returned promise does not reject; a lookup or a sample that
\* finds nothing is answered with an empty result.
ReadOps == {"getShows", "getPage", "getShow", "getRandomShow"}

C9_FailureReported ==
  (last.op \in ReadOps) =>
    /\ last.failed =>
         /\ last.nextCalled # last.errorSent
         /\ ~last.sent
         /\ last.promise = "fulfilled"
    /\ ~last.failed => (last.sent /\ ~last.nextCalled /\ ~last.errorSent /\ last.promise = "fulfilled")

====
